---- MODULE Spec2Model ----
(***************************************************************************)
(* file-tracker: the metadata store (FileMetadataDb), the file descriptors *)
(* (FileMetadata / DbFileMetadata), the history log                        *)
(* (FileMetadataHistoryLog) and the reconciliation run of                  *)
(* update_database.py (prune_deleted_files, then register_new_files, then  *)
(* one commit).                                                            *)
(***************************************************************************)
EXTENDS Integers, Sequences, FiniteSets, TLC

\* ------------------------------------------------------------------------
\* Bounds of the model
\* ------------------------------------------------------------------------
\* runs of update_database.py in one behaviour
MaxPasses == 3
\* changes the environment makes to the filesystem in one behaviour
MaxFsOps == 2
\* rows written to one history log through the calls of LogSpec
MaxRows == 1

\* ------------------------------------------------------------------------
\* The filesystem the program looks at
\* ------------------------------------------------------------------------
\* A path string is the sequence of its parts between slashes: "/r1/a" is
\* <<"", "r1", "a">>, "/r1//a" is <<"", "r1", "", "a">>, "/r1/a/" is
\* <<"", "r1", "a", "">>.
\* "/r1" is a directory on filesystem 1; "/r1/m" is a directory below it that
\* is a mount point of filesystem 2 while `mounted`, a plain directory of
\* filesystem 1 otherwise.
R1 == <<"", "r1">>
RM == <<"", "r1", "m">>
Roots == {R1, RM}
PA == <<"", "r1", "a">>
PB == <<"", "r1", "m", "b">>
Paths == {PA, PB}

\* Other spellings of the same paths, as a caller may write them in a dict.
Spellings == Paths \cup {<<"", "r1", "", "a">>, <<"", "r1", ".", "m", "b", "">>}

IsPart(x) == x # "" /\ x # "."

\* pathlib.Path(s) of an absolute path string, and str() of that: empty parts
\* and "." parts are dropped, the root is kept.
Path(s) == <<"">> \o SelectSeq(s, IsPart)

Under(p, root) == (root = R1) \/ (root = RM /\ p = PB)

\* File contents, and the length in bytes of each: contents 1 and 2 differ
\* but have the same length, content 3 is longer.
Contents == {1, 2, 3}
SizeOf(content) == IF content = 3 THEN 2 ELSE 1
Mtimes == {1, 2}
FsIds == {1, 2}

\* An absent directory entry; a symlink that leads to a regular file, a
\* symlink that leads to none (dangling, or to a directory) and a non-regular
\* entry (socket, device) carry no attribute the program ever reads.
NoFile == [kind |-> "absent", size |-> 0, mtime |-> 0, content |-> 0, readable |-> TRUE]
Symlink == [NoFile EXCEPT !.kind = "symlink"]
Dangling == [NoFile EXCEPT !.kind = "dangling"]
Other == [NoFile EXCEPT !.kind = "other"]
\* an entry of a directory that can be listed but not searched: os.walk
\* yields its name, and every stat or open of it fails with EACCES
NoAccess == [NoFile EXCEPT !.kind = "noaccess"]
RegularFiles ==
    {[kind |-> "file", size |-> SizeOf(c), mtime |-> m, content |-> c, readable |-> r] :
        c \in Contents, m \in Mtimes, r \in BOOLEAN}
Entries == {NoFile, Symlink, Dangling, Other, NoAccess} \cup RegularFiles

\* Optional values: None is <<>>, a present value v is <<v>>.
None == <<>>
Some(v) == <<v>>

VARIABLES
    disk,        \* Paths -> Entries: what is at each path
    mounted,     \* whether /r1/m is a mount point of filesystem 2
    dbExists,    \* whether a file exists at db_path
    dbFile,      \* the committed content of the store: a set of rows
    conn,        \* the FileMetadataDb object: connection state and its view
    history,     \* rows of the history log of the current (or last) run
    histClosed,  \* FileMetadataHistoryLog._closed
    logFile,     \* the file at the path of the history log: its lines, or None
    pc,          \* where update_database.main is
    cfg,         \* config["filesystems"]: sequence of [root, fs_id]
    rootIdx,     \* index in cfg of the filesystem being walked
    cursor,      \* rows db.get_all_files() has still to yield to the prune loop
    walk,        \* paths utils.walk_files() has still to yield to the register loop
    counters,    \* files_added, files_updated, files_skipped, files_deleted, files_error
    result,      \* what the last call on the store / the last run raised
    call,        \* history variable: the last call made on the store, and what it met
    store0,      \* history variable: dbFile when the run started
    applied,     \* history variable: mutations applied to the store in this run
    visits,      \* history variable: entries the register phase has handled
    examined,    \* history variable: rows the body of the prune loop has run on
    idem,        \* history variable: previous run committed, same config, no change since
    settled,     \* history variable: last run committed and nothing changed since
    delRows,     \* history variable: delete rows logged for a path while it is no file
    delDone,     \* history variable: those of delRows whose run has committed
    passes,      \* runs started so far
    fsops        \* filesystem changes so far

vars == <<disk, mounted, dbExists, dbFile, conn, history, histClosed, pc, cfg,
          rootIdx, cursor, walk, counters, result, call, store0, applied, visits, examined,
          idem, settled, delRows, delDone, passes, fsops, logFile>>

\* ------------------------------------------------------------------------
\* utils.py
\* ------------------------------------------------------------------------
\* os.statvfs(path).f_fsid: the filesystem a path is on.
get_fsid(p) == IF mounted /\ (p = RM \/ p = PB) THEN 2 ELSE 1

\* Path.is_file(): follows symlinks, so a symlink to a regular file is a file.
\* It answers False when the stat fails with ENOENT or ENOTDIR and lets every
\* other error of the stat through: stat_raised is what it raises.
is_file(p) == disk[p].kind \in {"file", "symlink"}
stat_raised(p) == IF disk[p].kind = "noaccess" THEN "PermissionError" ELSE "None"

\* Path.is_symlink(): does not follow the link.
is_symlink(p) == disk[p].kind \in {"symlink", "dangling"}

\* Path.is_dir(): /r1 and /r1/m are directories, whatever is mounted; the
\* paths of files never are.
is_dir(p) == p \in Roots

\* os.walk below `root`: every directory entry that is not a directory.
walk_files(root) == {p \in Paths : Under(p, root) /\ disk[p].kind # "absent"}

\* ------------------------------------------------------------------------
\* file_metadata.py
\* ------------------------------------------------------------------------
HASH_LEN == 32

\* hashlib.sha256 over the whole content: a 32-byte digest that determines
\* the content it was computed from.
SHA256(content) == [len |-> HASH_LEN, digest |-> content]

\* FileMetadata.__init__ without its test for a symlink
FileMetadata_follow_symlinks(p) ==
    IF ~is_file(p) THEN [raised |-> "FileNotFoundError", md |-> None]
    ELSE [raised |-> "None",
          md |-> Some([path |-> Path(p), size |-> disk[p].size, mtime |-> disk[p].mtime,
                       hash |-> None, fs_id |-> None])]

\* FileMetadata.__init__: [raised, md]; the path is resolved, size and mtime
\* are read now, hash and fs_id are left unset.
FileMetadata(p) ==
    IF stat_raised(p) # "None" THEN [raised |-> stat_raised(p), md |-> None]
    ELSE IF ~is_file(p) THEN [raised |-> "FileNotFoundError", md |-> None]
    ELSE IF is_symlink(p) THEN [raised |-> "TypeError", md |-> None]
    ELSE [raised |-> "None",
          md |-> Some([path |-> Path(p), size |-> disk[p].size, mtime |-> disk[p].mtime,
                       hash |-> None, fs_id |-> None])]

\* The two kinds of object DbFileMetadata.__init__ is handed: a dict built by
\* the caller, and the sqlite3.Row a cursor of the store returns (the store
\* sets row_factory = sqlite3.Row); a Row is no instance of dict.
Dict(fields) == [type |-> "dict", fields |-> fields]
Row(fields) == [type |-> "Row", fields |-> fields]

\* DbFileMetadata.__init__: [raised, md]; never reads the disk, and takes the
\* hash as it is given, whatever its length.
DbFileMetadata(file_dict) ==
    IF file_dict.type # "dict" THEN [raised |-> "TypeError", md |-> None]
    ELSE [raised |-> "None",
          md |-> Some([path |-> Path(file_dict.fields.path), size |-> file_dict.fields.size,
                       mtime |-> file_dict.fields.mtime,
                       hash |-> Some(file_dict.fields.hash),
                       fs_id |-> Some(file_dict.fields.fs_id)])]

\* FileMetadata.hash / DbFileMetadata.hash: [raised, value]; a set value is
\* returned as it is, otherwise the file at the path is opened and read: what
\* is there now, the target of a symlink included.
fm_hash(md) ==
    IF md.hash # None THEN [raised |-> "None", value |-> md.hash]
    ELSE IF stat_raised(md.path) # "None"
    THEN [raised |-> stat_raised(md.path), value |-> None]
    ELSE IF disk[md.path].kind \in {"absent", "dangling"}
    THEN [raised |-> "FileNotFoundError", value |-> None]
    ELSE IF disk[md.path].kind = "other" THEN [raised |-> "OSError", value |-> None]
    ELSE IF ~disk[md.path].readable THEN [raised |-> "PermissionError", value |-> None]
    ELSE [raised |-> "None", value |-> Some(SHA256(disk[md.path].content))]

\* FileMetadata.fs_id / DbFileMetadata.fs_id: the value
fm_fs_id(md) == IF md.fs_id # None THEN md.fs_id[1] ELSE get_fsid(md.path)

\* FileMetadata.fs_id: what it raises; os.statvfs needs something at the path
fs_id_raised(md) ==
    IF md.fs_id # None THEN "None"
    ELSE IF disk[md.path].kind \in {"absent", "dangling"} THEN "FileNotFoundError"
    ELSE stat_raised(md.path)

\* FileMetadata.as_sql_dict: [raised, dict]
as_sql_dict(md, include_hash) ==
    LET h == IF include_hash THEN fm_hash(md) ELSE [raised |-> "None", value |-> None]
    IN  [raised |-> IF h.raised # "None" THEN h.raised ELSE fs_id_raised(md),
         dict |-> [path |-> md.path, size |-> md.size, mtime |-> md.mtime,
                   hash |-> h.value, fs_id |-> fm_fs_id(md)]]

\* The hash property that keeps nothing: the object is as it was
hash_uncached(md) == md

\* FileMetadata.hash, its effect on the object: a digest that was read is
\* kept in _hash; a read that raised leaves _hash unset.
hash_cached(md) ==
    LET h == fm_hash(md)
    IN  IF h.raised = "None" THEN [md EXCEPT !.hash = h.value] ELSE md

\* FileMetadata.fs_id, its effect on the object: the value is kept in _fs_id.
fs_id_cached(md) ==
    IF fs_id_raised(md) # "None" THEN md ELSE [md EXCEPT !.fs_id = Some(fm_fs_id(md))]

\* FileMetadata.as_sql_dict, its effect on the object: self.hash is read
\* only with include_hash, self.fs_id always, and `self.hash` is evaluated
\* before `self.fs_id`, so a hash that raises leaves fs_id unread.
as_sql_dict_cached(md, include_hash) ==
    IF ~include_hash THEN fs_id_cached(md)
    ELSE IF fm_hash(md).raised # "None" THEN md
    ELSE fs_id_cached(hash_cached(md))

\* ------------------------------------------------------------------------
\* file_tracker/file_metadata_db.py
\* ------------------------------------------------------------------------
\* The FileMetadataDb object before any constructor has run.
NoConn == [open |-> FALSE, readonly |-> TRUE, is_closed |-> FALSE,
           table |-> {}, in_transaction |-> FALSE]

\* the INSERT with :size and :mtime bound to each other's column
RowOf_swapped(d) == [path |-> d.path, hash |-> d.hash[1], size |-> d.mtime,
                     mtime |-> d.size, fs_id |-> d.fs_id]

\* the INSERT with :hash bound to a digest other than the dict's
RowOf_other_hash(d) == [path |-> d.path, hash |-> [d.hash[1] EXCEPT !.digest = 0],
                        size |-> d.size, mtime |-> d.mtime, fs_id |-> d.fs_id]

\* The row an INSERT or UPDATE writes from the dict of as_sql_dict.
RowOf(d) == [path |-> d.path, hash |-> d.hash[1], size |-> d.size,
             mtime |-> d.mtime, fs_id |-> d.fs_id]

\* os.statvfs gives f_fsid as an unsigned 64-bit value, and SQLite stores an
\* INTEGER in 64 bits, signed: HighFsId stands for an f_fsid of 2^63 or more,
\* every other integer of the model for itself.
HighFsId == 9

\* Whether sqlite3 binds the Python int v to a parameter of a statement
\* (OverflowError otherwise).
sqlite_integer(v) == v # HighFsId

\* FileMetadataDb._execute_and_yield_files: [raised, files] for the rows the
\* query selects; each row fetched is handed to DbFileMetadata before it is
\* yielded, so the generator ends at the first row that raises. Every row is
\* of the same type, so either all of them are yielded or none.
execute_and_yield_files(c, rows) ==
    IF c.is_closed THEN [raised |-> "ProgrammingError", files |-> {}]
    ELSE LET ds == {DbFileMetadata(Row(r)) : r \in rows}
         IN  IF \E d \in ds : d.raised # "None"
             THEN [raised |-> (CHOOSE d \in ds : d.raised # "None").raised, files |-> {}]
             ELSE [raised |-> "None", files |-> {d.md[1] : d \in ds}]

\* FileMetadataDb.get_all_files: SELECT * FROM files
get_all_files(c) == execute_and_yield_files(c, c.table)

\* FileMetadataDb.get_files_matching_hash: SELECT * FROM files WHERE hash = ?
get_files_matching_hash(c, file_hash) ==
    IF file_hash.len # HASH_LEN THEN [raised |-> "ValueError", files |-> {}]
    ELSE execute_and_yield_files(c, {r \in c.table : r.hash = file_hash})

\* What a caller can hand to get_files_matching_regex: a compiled re.Pattern,
\* the type its signature declares, or a str; `valid` tells whether re can
\* compile it and `matches` the paths re.match accepts.
RePattern == [type |-> "Pattern", valid |-> TRUE, matches |-> Paths]
Regexes ==
    {RePattern,
     [type |-> "str", valid |-> TRUE, matches |-> Paths],
     [type |-> "str", valid |-> TRUE, matches |-> {PB}],
     [type |-> "str", valid |-> FALSE, matches |-> {}]}

\* FileMetadataDb.get_files_matching_regex: SELECT * FROM files WHERE path
\* REGEXP ?, the regex bound as a parameter. sqlite3 binds no re.Pattern
\* (ProgrammingError); _sql_regex, called once for each row, raises on a
\* regex that does not compile, which the query reports as OperationalError.
get_files_matching_regex(c, regex) ==
    IF c.is_closed THEN [raised |-> "ProgrammingError", files |-> {}]
    ELSE IF regex.type = "Pattern" THEN [raised |-> "ProgrammingError", files |-> {}]
    ELSE IF ~regex.valid /\ c.table # {}
    THEN [raised |-> "OperationalError", files |-> {}]
    ELSE execute_and_yield_files(c, {r \in c.table : r.path \in regex.matches})

\* get_file that raises for a path that has no row, as update_file does
get_file_strict(c, md) ==
    IF c.is_closed THEN [raised |-> "ProgrammingError", value |-> None]
    ELSE LET hit == {r \in c.table : r.path = md.path}
         IN  IF hit = {} THEN [raised |-> "FileNotFoundError", value |-> None]
             ELSE LET d == DbFileMetadata(Row(CHOOSE r \in hit : TRUE))
                  IN  [raised |-> d.raised, value |-> d.md]

\* FileMetadataDb.get_file: [raised, value]; SELECT * FROM files WHERE
\* path = :path, and the row fetched, if any, is handed to DbFileMetadata.
get_file(c, md) ==
    IF c.is_closed THEN [raised |-> "ProgrammingError", value |-> None]
    ELSE LET hit == {r \in c.table : r.path = md.path}
         IN  IF hit = {} THEN [raised |-> "None", value |-> None]
             ELSE LET d == DbFileMetadata(Row(CHOOSE r \in hit : TRUE))
                  IN  [raised |-> d.raised, value |-> d.md]

\* FileMetadataDb.does_exist: [raised, value]; SELECT 1 FROM files WHERE
\* path = :path
does_exist(c, md) ==
    IF c.is_closed THEN [raised |-> "ProgrammingError", value |-> FALSE]
    ELSE [raised |-> "None", value |-> \E r \in c.table : r.path = md.path]

\* FileMetadataDb.add_file: [raised, conn]
add_file(c, md) ==
    IF c.readonly THEN [raised |-> "RuntimeError", conn |-> c]
    ELSE LET d == as_sql_dict(md, TRUE)
         IN  IF d.raised # "None" THEN [raised |-> d.raised, conn |-> c]
             ELSE IF c.is_closed THEN [raised |-> "ProgrammingError", conn |-> c]
             ELSE IF ~sqlite_integer(d.dict.fs_id)
                  THEN [raised |-> "OverflowError",
                        conn |-> [c EXCEPT !.in_transaction = TRUE]]
             ELSE IF \E r \in c.table : r.path = d.dict.path
                  THEN [raised |-> "IntegrityError",
                        conn |-> [c EXCEPT !.in_transaction = TRUE]]
                  ELSE [raised |-> "None",
                        conn |-> [c EXCEPT !.table = @ \cup {RowOf(d.dict)},
                                           !.in_transaction = TRUE]]

\* FileMetadataDb.update_file: [raised, conn]
update_file(c, md) ==
    IF c.readonly THEN [raised |-> "RuntimeError", conn |-> c]
    ELSE IF c.is_closed THEN [raised |-> "ProgrammingError", conn |-> c]
    ELSE LET d == as_sql_dict(md, TRUE)
             hit == {r \in c.table : r.path = d.dict.path}
         IN  IF d.raised # "None" THEN [raised |-> d.raised, conn |-> c]
             ELSE IF ~sqlite_integer(d.dict.fs_id)
             THEN [raised |-> "OverflowError", conn |-> [c EXCEPT !.in_transaction = TRUE]]
             ELSE IF hit = {}
             THEN [raised |-> "FileNotFoundError",
                   conn |-> [c EXCEPT !.in_transaction = TRUE]]
             ELSE [raised |-> "None",
                   conn |-> [c EXCEPT !.table = (@ \ hit) \cup {RowOf(d.dict)},
                                      !.in_transaction = TRUE]]

\* remove_file that does not look at the number of rows deleted
remove_file_silent(c, md) ==
    IF c.readonly THEN [raised |-> "RuntimeError", conn |-> c]
    ELSE IF c.is_closed THEN [raised |-> "ProgrammingError", conn |-> c]
    ELSE [raised |-> "None",
          conn |-> [c EXCEPT !.table = {r \in @ : r.path # md.path},
                             !.in_transaction = TRUE]]

\* FileMetadataDb.remove_file: [raised, conn]
remove_file(c, md) ==
    IF c.readonly THEN [raised |-> "RuntimeError", conn |-> c]
    ELSE IF c.is_closed THEN [raised |-> "ProgrammingError", conn |-> c]
    ELSE LET hit == {r \in c.table : r.path = md.path}
         IN  IF hit = {}
             THEN [raised |-> "FileNotFoundError",
                   conn |-> [c EXCEPT !.in_transaction = TRUE]]
             ELSE [raised |-> "None",
                   conn |-> [c EXCEPT !.table = @ \ hit, !.in_transaction = TRUE]]

OpenConn(readonly, file) ==
    [open |-> TRUE, readonly |-> readonly, is_closed |-> FALSE,
     table |-> file, in_transaction |-> FALSE]

\* FileMetadataDb._bootstrap_new_db that does not look whether the path exists
bootstrap_new_db_clobber(readonly, exists, file) ==
    IF readonly THEN [raised |-> "ValueError", conn |-> NoConn, exists |-> exists, file |-> file]
    ELSE [raised |-> "None", conn |-> OpenConn(FALSE, {}), exists |-> TRUE, file |-> {}]

\* FileMetadataDb._bootstrap_new_db: [raised, conn, exists, file] for the
\* store file as it is (exists, file); the new store has an empty table.
bootstrap_new_db(readonly, exists, file) ==
    IF readonly THEN [raised |-> "ValueError", conn |-> NoConn, exists |-> exists, file |-> file]
    ELSE IF exists
    THEN [raised |-> "FileExistsError", conn |-> NoConn, exists |-> exists, file |-> file]
    ELSE [raised |-> "None", conn |-> OpenConn(FALSE, {}), exists |-> TRUE, file |-> {}]

\* FileMetadataDb._connect_to_existing_db
connect_to_existing_db(readonly, exists, file) ==
    IF ~exists
    THEN [raised |-> "FileNotFoundError", conn |-> NoConn, exists |-> exists, file |-> file]
    ELSE [raised |-> "None", conn |-> OpenConn(readonly, file), exists |-> exists,
          file |-> file]

\* FileMetadataDb.__init__: db_path is resolved, strictly unless a store is
\* to be created, then the store is created or opened.
Construct(readonly, create_new_db, exists, file) ==
    IF ~create_new_db /\ ~exists
    THEN [raised |-> "FileNotFoundError", conn |-> NoConn, exists |-> exists, file |-> file]
    ELSE IF create_new_db THEN bootstrap_new_db(readonly, exists, file)
    ELSE connect_to_existing_db(readonly, exists, file)

\* commit that ends the transaction without writing it
commit_no_write(c, file) ==
    IF c.is_closed THEN [raised |-> "ProgrammingError", conn |-> c, file |-> file]
    ELSE [raised |-> "None", conn |-> [c EXCEPT !.in_transaction = FALSE], file |-> file]

\* FileMetadataDb.commit: [raised, conn, file]; the connection's view becomes
\* the file's content.
commit(c, file) ==
    IF c.is_closed THEN [raised |-> "ProgrammingError", conn |-> c, file |-> file]
    ELSE [raised |-> "None",
          conn |-> [c EXCEPT !.in_transaction = FALSE],
          file |-> IF c.in_transaction THEN c.table ELSE file]

\* FileMetadataDb.close that commits what is pending
close_committing(c, file) ==
    IF c.is_closed THEN [raised |-> "None", conn |-> c, file |-> file]
    ELSE [raised |-> "None",
          conn |-> [c EXCEPT !.open = FALSE, !.is_closed = TRUE, !.table = {},
                             !.in_transaction = FALSE],
          file |-> IF c.in_transaction THEN c.table ELSE file]

\* FileMetadataDb.close without its test of _is_closed, on a connection that
\* refuses to be closed twice
close_once(c, file) ==
    IF c.is_closed THEN [raised |-> "ProgrammingError", conn |-> c, file |-> file]
    ELSE [raised |-> "None",
          conn |-> [c EXCEPT !.open = FALSE, !.is_closed = TRUE, !.table = {},
                             !.in_transaction = FALSE],
          file |-> file]

\* FileMetadataDb.close: [raised, conn, file]; a second close returns at once,
\* the first one closes the connection, which drops whatever was not
\* committed.
close(c, file) ==
    IF c.is_closed THEN [raised |-> "None", conn |-> c, file |-> file]
    ELSE [raised |-> "None",
          conn |-> [c EXCEPT !.open = FALSE, !.is_closed = TRUE, !.table = {},
                             !.in_transaction = FALSE],
          file |-> file]

\* ------------------------------------------------------------------------
\* file_metadata_history_log.py
\* ------------------------------------------------------------------------
LOG_ACTIONS ==
    [new |-> {"new_file"}, update |-> {"changed"},
     delete |-> {"nonexistent", "invalid_fs_id"},
     skip |-> {"unchanged"}, error |-> {"unexpected_fs_id"}]

\* The line csv.DictWriter.writeheader() writes for _CSV_HEADER: each
\* field holds its own name.
CSV_HEADER ==
    [action |-> "action", reason |-> "reason", path |-> "path", new_hash |-> "new_hash"]

\* bytes.hex(): two digits for each byte
hex(h) == [len |-> h.len + h.len, digest |-> h.digest]

\* FileMetadataHistoryLog.__init__ that opens its file for writing whatever
\* is at the path
FileMetadataHistoryLog_clobber(file) == [raised |-> "None", file |-> Some(<<CSV_HEADER>>)]

\* FileMetadataHistoryLog.__init__ on a path where `file` is: [raised, file];
\* the file is opened with mode "xt" and the header is written.
FileMetadataHistoryLog(file) ==
    IF file # None THEN [raised |-> "FileExistsError", file |-> file]
    ELSE [raised |-> "None", file |-> Some(<<CSV_HEADER>>)]

\* FileMetadataHistoryLog.add without its test of the reason
history_add_any_reason(rows, closed, action, reason, md) ==
    IF closed THEN [raised |-> "ValueError", rows |-> rows, md |-> md]
    ELSE IF action \notin DOMAIN LOG_ACTIONS THEN [raised |-> "ValueError", rows |-> rows, md |-> md]
    ELSE LET with_hash == action = "new" \/ action = "update"
             h == IF with_hash THEN fm_hash(md) ELSE [raised |-> "None", value |-> None]
         IN  IF h.raised # "None" THEN [raised |-> h.raised, rows |-> rows, md |-> md]
             ELSE [raised |-> "None",
                   rows |-> Append(rows, [action |-> action, reason |-> reason,
                                          path |-> md.path,
                                          new_hash |-> IF with_hash THEN Some(hex(h.value[1]))
                                                       ELSE None]),
                   md |-> IF with_hash THEN hash_cached(md) ELSE md]

\* FileMetadataHistoryLog.add that writes the hash whatever the action
history_add_hash_always(rows, closed, action, reason, md) ==
    IF closed THEN [raised |-> "ValueError", rows |-> rows, md |-> md]
    ELSE IF action \notin DOMAIN LOG_ACTIONS THEN [raised |-> "ValueError", rows |-> rows, md |-> md]
    ELSE IF reason \notin LOG_ACTIONS[action] THEN [raised |-> "ValueError", rows |-> rows, md |-> md]
    ELSE LET with_hash == TRUE
             h == IF with_hash THEN fm_hash(md) ELSE [raised |-> "None", value |-> None]
         IN  IF h.raised # "None" THEN [raised |-> h.raised, rows |-> rows, md |-> md]
             ELSE [raised |-> "None",
                   rows |-> Append(rows, [action |-> action, reason |-> reason,
                                          path |-> md.path,
                                          new_hash |-> IF with_hash THEN Some(hex(h.value[1]))
                                                       ELSE None]),
                   md |-> IF with_hash THEN hash_cached(md) ELSE md]

\* FileMetadataHistoryLog.add without its test of _closed
history_add_closed(rows, closed, action, reason, md) ==
    IF action \notin DOMAIN LOG_ACTIONS THEN [raised |-> "ValueError", rows |-> rows, md |-> md]
    ELSE IF reason \notin LOG_ACTIONS[action] THEN [raised |-> "ValueError", rows |-> rows, md |-> md]
    ELSE LET with_hash == action = "new" \/ action = "update"
             h == IF with_hash THEN fm_hash(md) ELSE [raised |-> "None", value |-> None]
         IN  IF h.raised # "None" THEN [raised |-> h.raised, rows |-> rows, md |-> md]
             ELSE [raised |-> "None",
                   rows |-> Append(rows, [action |-> action, reason |-> reason,
                                          path |-> md.path,
                                          new_hash |-> IF with_hash THEN Some(hex(h.value[1]))
                                                       ELSE None]),
                   md |-> IF with_hash THEN hash_cached(md) ELSE md]

\* FileMetadataHistoryLog.add: [raised, rows, md], the rows written through
\* this object and the descriptor after the call; file.hash is read, and so
\* computed if it was not yet, for the actions new and update only.
history_add(rows, closed, action, reason, md) ==
    IF closed THEN [raised |-> "ValueError", rows |-> rows, md |-> md]
    ELSE IF action \notin DOMAIN LOG_ACTIONS THEN [raised |-> "ValueError", rows |-> rows, md |-> md]
    ELSE IF reason \notin LOG_ACTIONS[action] THEN [raised |-> "ValueError", rows |-> rows, md |-> md]
    ELSE LET with_hash == action = "new" \/ action = "update"
             h == IF with_hash THEN fm_hash(md) ELSE [raised |-> "None", value |-> None]
         IN  IF h.raised # "None" THEN [raised |-> h.raised, rows |-> rows, md |-> md]
             ELSE [raised |-> "None",
                   rows |-> Append(rows, [action |-> action, reason |-> reason,
                                          path |-> md.path,
                                          new_hash |-> IF with_hash THEN Some(hex(h.value[1]))
                                                       ELSE None]),
                   md |-> IF with_hash THEN hash_cached(md) ELSE md]

\* The file of the log after rows0 has become rows1: csv.DictWriter.writerow
\* writes each new row at the end.
writerow(file, rows0, rows1) ==
    IF file = None THEN None
    ELSE Some(file[1] \o SubSeq(rows1, Len(rows0) + 1, Len(rows1)))

\* FileMetadataHistoryLog.close that closes its file again
history_close_again(closed) ==
    IF closed THEN [raised |-> "ValueError", closed |-> TRUE]
    ELSE [raised |-> "None", closed |-> TRUE]

\* FileMetadataHistoryLog.close: [raised, closed]
history_close(closed) == [raised |-> "None", closed |-> TRUE]

\* ------------------------------------------------------------------------
\* update_database.py
\* ------------------------------------------------------------------------
ZeroCounters == [added |-> 0, updated |-> 0, skipped |-> 0, deleted |-> 0, errors |-> 0]

NoCall == [op |-> "none"]

\* config["filesystems_to_scan"]: /r1, /r1/m, or both in the order the file
\* lists them, each with the fs_id written in the file.
Configs ==
    {<<[root |-> r, fs_id |-> f]>> : r \in Roots, f \in FsIds}
    \cup {<<[root |-> R1, fs_id |-> f1], [root |-> RM, fs_id |-> f2]>> :
            f1 \in FsIds, f2 \in FsIds}
    \cup {<<[root |-> RM, fs_id |-> f2], [root |-> R1, fs_id |-> f1]>> :
            f1 \in FsIds, f2 \in FsIds}

\* filesystems.values()
allowed_fsids(c) == {c[i].fs_id : i \in DOMAIN c}

\* A config whose one filesystem is the path of a file
FileConfigs == {<<[root |-> PA, fs_id |-> f]>> : f \in FsIds}

\* validate_filesystem_mapping without its comparison of the fs_id
validate_filesystem_mapping_any_fsid(c) == \A i \in DOMAIN c : is_dir(c[i].root)

\* validate_filesystem_mapping: TRUE when it returns, which it does when
\* every root is a directory of the fs_id the config gives for it.
validate_filesystem_mapping(c) ==
    \A i \in DOMAIN c : is_dir(c[i].root) /\ c[i].fs_id = get_fsid(c[i].root)

\* validate_filesystem_mapping: what it raises, at the first filesystem of
\* the config that fails one of its two tests.
validate_raised(c) ==
    LET bad == {i \in DOMAIN c : ~validate_filesystem_mapping(<<c[i]>>)}
        first == CHOOSE i \in bad : \A j \in bad : i <= j
    IN  IF bad = {} THEN "None"
        ELSE IF ~is_dir(c[first].root) THEN "NotADirectoryError"
        ELSE "ValueError"

\* has_file_changed
has_file_changed(file_metadata_1, file_metadata_2) ==
    \/ file_metadata_1.mtime # file_metadata_2.mtime
    \/ file_metadata_1.size # file_metadata_2.size
    \/ fm_fs_id(file_metadata_1) # fm_fs_id(file_metadata_2)

\* log_permission_error that counts the error twice
log_permission_error_twice(cnt) == [cnt EXCEPT !.errors = @ + 2]

\* log_permission_error that forgets to count
log_permission_error_uncounted(cnt) == cnt

\* log_permission_error
log_permission_error(cnt) == [cnt EXCEPT !.errors = @ + 1]

\* log_change that writes no row for a new file
log_change_no_new(rows, closed, action, reason, file) ==
    IF action = "new" THEN rows
    ELSE history_add(rows, closed, action, reason, file).rows

\* log_change: the rows of the log after history.add
log_change(rows, closed, action, reason, file) ==
    history_add(rows, closed, action, reason, file).rows

\* register_new_files, `file_metadata.fs_id != filesystems[fs]`
unexpected_fs_id(file_metadata, fs) == fm_fs_id(file_metadata) # fs.fs_id

\* prune_deleted_files, the two tests made on a row of the store: the reason
\* to delete it, or "keep".
prune_reason(file, c) ==
    IF fm_fs_id(file) \notin allowed_fsids(c) THEN "invalid_fs_id"
    ELSE IF stat_raised(file.path) # "None" THEN stat_raised(file.path)
    ELSE IF ~is_file(file.path) THEN "nonexistent"
    ELSE "keep"

RowsOf(tbl, p) == {r \in tbl : r.path = p}

DelCount(rows, p) ==
    Cardinality({i \in DOMAIN rows : rows[i].action = "delete" /\ rows[i].path = p})

\* An exception leaves main's with blocks: FileMetadataDb.__exit__ closes the
\* store without a commit, FileMetadataHistoryLog.__exit__ closes the log.
Unwind(raised) ==
    /\ LET cl == close(conn, dbFile)
       IN  /\ conn' = cl.conn
           /\ dbFile' = cl.file
    /\ histClosed' = TRUE
    /\ pc' = "done"
    /\ result' = raised
    /\ settled' = FALSE
    /\ cursor' = {}
    /\ walk' = {}

\* main with a config that read_config refuses: validate_filesystem_mapping
\* raises, and main ends before create_log_file_paths and the with blocks.
main_invalid ==
    /\ pc = "idle"
    /\ passes < MaxPasses
    /\ dbExists
    /\ \E c \in Configs \cup FileConfigs :
        /\ ~validate_filesystem_mapping(c)
        /\ call' = [op |-> "main", raised |-> validate_raised(c), file0 |-> dbFile]
    /\ passes' = passes + 1
    /\ UNCHANGED <<disk, mounted, dbExists, dbFile, conn, history, histClosed, pc, cfg,
                   rootIdx, cursor, walk, counters, result, store0, applied, visits, examined, idem,
                   settled, delRows, delDone, fsops, logFile>>

\* main, up to the first iteration of the prune loop: the config is read and
\* validated, the history log and the store are opened.
main_enter ==
    /\ pc = "idle"
    /\ passes < MaxPasses
    /\ dbExists
    /\ \E c \in Configs :
        /\ validate_filesystem_mapping(c)
        /\ LET o == Construct(FALSE, FALSE, dbExists, dbFile)
           IN  /\ conn' = o.conn
               /\ cursor' = o.conn.table
        /\ cfg' = c
        /\ idem' = (settled /\ c = cfg)
    /\ LET lg == FileMetadataHistoryLog(logFile)
       IN  /\ lg.raised = "None"
           /\ logFile' = lg.file
    /\ history' = <<>>
    /\ histClosed' = FALSE
    /\ counters' = ZeroCounters
    /\ pc' = "prune"
    /\ rootIdx' = 0
    /\ walk' = {}
    /\ result' = "None"
    /\ store0' = dbFile
    /\ applied' = <<>>
    /\ visits' = <<>>
    /\ examined' = <<>>
    /\ passes' = passes + 1
    /\ call' = [op |-> "main", raised |-> "None", file0 |-> dbFile]
    /\ UNCHANGED <<disk, mounted, dbExists, dbFile, settled, delRows, delDone, fsops>>

\* a prune loop that deletes every row the enumeration fetches, untested
prune_deleted_files_untested ==
    /\ pc = "prune"
    /\ \E row \in cursor :
        /\ cursor' = cursor \ {row}
        /\ conn' = [conn EXCEPT !.table = @ \ {row}, !.in_transaction = TRUE]
        /\ counters' = [counters EXCEPT !.deleted = @ + 1]
    /\ UNCHANGED <<disk, mounted, dbExists, dbFile, history, histClosed, pc, cfg, rootIdx,
                   walk, result, call, store0, applied, visits, examined, idem, settled,
                   delRows, delDone, passes, fsops, logFile>>

\* prune_deleted_files: one iteration of its loop over db.get_all_files(),
\* which hands each row it fetches to DbFileMetadata before it yields.
prune_deleted_files ==
    /\ pc = "prune"
    /\ \E row \in cursor :
        LET d == DbFileMetadata(Row(row))
        IN  IF d.raised # "None"
            THEN /\ Unwind(d.raised)
                 /\ UNCHANGED <<history, counters, applied, delRows, examined>>
            ELSE
        LET file == d.md[1]
            reason == prune_reason(file, cfg)
            rm == remove_file(conn, file)
        IN  /\ examined' = Append(examined, row)
            /\ IF reason = "PermissionError"
               THEN /\ Unwind(reason)
                    /\ UNCHANGED <<history, counters, applied, delRows>>
               ELSE IF reason = "keep"
               THEN /\ cursor' = cursor \ {row}
                    /\ UNCHANGED <<dbFile, conn, history, histClosed, pc, walk, counters,
                                   result, applied, settled, delRows>>
               ELSE IF rm.raised # "None"
               THEN /\ Unwind(rm.raised)
                    /\ UNCHANGED <<history, counters, applied, delRows>>
               ELSE /\ cursor' = cursor \ {row}
                    /\ conn' = rm.conn
                    /\ history' = log_change(history, histClosed, "delete", reason, file)
                    /\ counters' = [counters EXCEPT !.deleted = @ + 1]
                    /\ applied' = Append(applied, [op |-> "delete", path |-> file.path])
                    /\ delRows' = IF is_file(file.path) THEN delRows
                                  ELSE [delRows EXCEPT ![file.path] = @ + 1]
                    /\ UNCHANGED <<dbFile, histClosed, pc, walk, result, settled>>
    /\ logFile' = writerow(logFile, history, history')
    /\ UNCHANGED <<disk, mounted, dbExists, cfg, rootIdx, call, store0, visits, idem,
                   delDone, passes, fsops>>

\* register_new_files started while db.get_all_files() has rows to yield
prune_end_early ==
    /\ pc = "prune"
    /\ pc' = "register"
    /\ rootIdx' = 1
    /\ walk' = walk_files(cfg[1].root)
    /\ UNCHANGED <<disk, mounted, dbExists, dbFile, conn, history, histClosed, cfg, cursor,
                   counters, result, call, store0, applied, visits, examined, idem, settled, delRows,
                   delDone, passes, fsops, logFile>>

\* prune_deleted_files returns and register_new_files starts to walk the
\* first configured filesystem.
prune_end ==
    /\ pc = "prune"
    /\ cursor = {}
    /\ pc' = "register"
    /\ rootIdx' = 1
    /\ walk' = walk_files(cfg[1].root)
    /\ UNCHANGED <<disk, mounted, dbExists, dbFile, conn, history, histClosed, cfg, cursor,
                   counters, result, call, store0, applied, visits, examined, idem, settled, delRows,
                   delDone, passes, fsops, logFile>>

\* What one iteration of the loop of register_new_files does with the entry
\* `file` met below the filesystem `fs`: [raised, conn, rows, counters, action],
\* action being that of the history row written, or "none".
RegisterFile(fs, file) ==
    LET same == [raised |-> "None", conn |-> conn, rows |-> history,
                 counters |-> counters, action |-> "none"]
    IN  IF stat_raised(file) # "None" THEN [same EXCEPT !.raised = stat_raised(file)]
        ELSE IF ~is_file(file) THEN same
        ELSE LET fm == FileMetadata(file) IN
        IF fm.raised # "None" THEN [same EXCEPT !.raised = fm.raised]
        ELSE LET file_metadata == fm.md[1]
                 got == get_file(conn, file_metadata)
                 db_file == got.value
             IN
        IF got.raised # "None" THEN [same EXCEPT !.raised = got.raised]
        ELSE IF unexpected_fs_id(file_metadata, fs)
        THEN [same EXCEPT
                !.rows = log_change(history, histClosed, "error", "unexpected_fs_id",
                                    file_metadata),
                !.counters = [counters EXCEPT !.errors = @ + 1],
                !.action = "error"]
        ELSE IF db_file = None
        THEN LET a == add_file(conn, file_metadata) IN
             IF a.raised = "PermissionError"
             THEN [same EXCEPT !.counters = log_permission_error(counters)]
             ELSE IF a.raised # "None" THEN [same EXCEPT !.raised = a.raised, !.conn = a.conn]
             ELSE [same EXCEPT
                     !.conn = a.conn,
                     !.rows = log_change(history, histClosed, "new", "new_file",
                                         file_metadata),
                     !.counters = [counters EXCEPT !.added = @ + 1],
                     !.action = "new"]
        ELSE IF has_file_changed(db_file[1], file_metadata)
        THEN LET u == update_file(conn, file_metadata) IN
             IF u.raised = "PermissionError"
             THEN [same EXCEPT !.counters = log_permission_error(counters)]
             ELSE IF u.raised # "None" THEN [same EXCEPT !.raised = u.raised, !.conn = u.conn]
             ELSE [same EXCEPT
                     !.conn = u.conn,
                     !.rows = log_change(history, histClosed, "update", "changed",
                                         file_metadata),
                     !.counters = [counters EXCEPT !.updated = @ + 1],
                     !.action = "update"]
        ELSE [same EXCEPT
                !.rows = log_change(history, histClosed, "skip", "unchanged",
                                    file_metadata),
                !.counters = [counters EXCEPT !.skipped = @ + 1],
                !.action = "skip"]

\* register_new_files: one iteration of its loop over utils.walk_files(fs).
register_new_files ==
    /\ pc = "register"
    /\ \E file \in walk :
        LET r == RegisterFile(cfg[rootIdx], file)
        IN  /\ visits' = Append(visits,
                    [root |-> rootIdx, path |-> file, action |-> r.action,
                     before |-> RowsOf(conn.table, file),
                     after |-> RowsOf(r.conn.table, file),
                     others |-> (r.conn.table \ RowsOf(r.conn.table, file))
                                = (conn.table \ RowsOf(conn.table, file)),
                     rows |-> Len(r.rows) - Len(history),
                     errors |-> r.counters.errors - counters.errors,
                     raised |-> r.raised])
            /\ IF r.raised # "None"
               THEN /\ Unwind(r.raised)
                    /\ UNCHANGED <<history, counters, applied>>
               ELSE /\ walk' = walk \ {file}
                    /\ conn' = r.conn
                    /\ history' = r.rows
                    /\ counters' = r.counters
                    /\ applied' = IF r.action \in {"new", "update"}
                                  THEN Append(applied,
                                         [op |-> IF r.action = "new" THEN "insert"
                                                 ELSE "update",
                                          path |-> file])
                                  ELSE applied
                    /\ UNCHANGED <<dbFile, histClosed, pc, result, settled, cursor>>
    /\ logFile' = writerow(logFile, history, history')
    /\ UNCHANGED <<disk, mounted, dbExists, cfg, rootIdx, call, store0, idem, delRows,
                   delDone, passes, fsops, examined>>

\* The walk of one filesystem is exhausted: register_new_files goes on with
\* the next configured filesystem, or returns to main.
register_next ==
    /\ pc = "register"
    /\ walk = {}
    /\ IF rootIdx < Len(cfg)
       THEN /\ rootIdx' = rootIdx + 1
            /\ walk' = walk_files(cfg[rootIdx + 1].root)
            /\ pc' = pc
       ELSE /\ pc' = "commit"
            /\ UNCHANGED <<rootIdx, walk>>
    /\ UNCHANGED <<disk, mounted, dbExists, dbFile, conn, history, histClosed, cfg, cursor,
                   counters, result, call, store0, applied, visits, examined, idem, settled, delRows,
                   delDone, passes, fsops, logFile>>

\* main after both phases: db.commit(), then the with blocks close the store
\* and the history log.
main_commit ==
    /\ pc = "commit"
    /\ LET cm == commit(conn, dbFile)
           cl == close(cm.conn, cm.file)
       IN  /\ dbFile' = cl.file
           /\ conn' = cl.conn
    /\ histClosed' = TRUE
    /\ pc' = "done"
    /\ result' = "committed"
    /\ settled' = TRUE
    /\ delDone' = [p \in Paths |->
                    IF is_file(p) THEN delDone[p] ELSE delDone[p] + DelCount(history, p)]
    /\ UNCHANGED <<disk, mounted, dbExists, history, cfg, rootIdx, cursor, walk, counters,
                   call, store0, applied, visits, examined, idem, delRows, passes, fsops, logFile>>

\* The run is interrupted (KeyboardInterrupt) somewhere before db.commit().
main_interrupt ==
    /\ pc \in {"prune", "register", "commit"}
    /\ Unwind("KeyboardInterrupt")
    /\ UNCHANGED <<disk, mounted, dbExists, history, cfg, rootIdx, counters, call,
                   store0, applied, visits, examined, idem, delRows, delDone, passes, fsops, logFile>>

\* The process of the run ends, after the commit or with the exception that
\* ended it: its counters and objects are gone, and the next run writes a
\* history log of its own, at a path named after a later second.
main_exit ==
    /\ pc = "done"
    /\ pc' = "idle"
    /\ conn' = NoConn
    /\ history' = <<>>
    /\ counters' = ZeroCounters
    /\ result' = "None"
    /\ rootIdx' = 0
    /\ store0' = {}
    /\ applied' = <<>>
    /\ visits' = <<>>
    /\ examined' = <<>>
    /\ idem' = FALSE
    /\ logFile' = None
    /\ UNCHANGED <<disk, mounted, dbExists, dbFile, histClosed, cfg, cursor, walk, call,
                   settled, delRows, delDone, passes, fsops>>

\* ------------------------------------------------------------------------
\* The environment, between two runs
\* ------------------------------------------------------------------------
\* A file is created, rewritten, touched, chmod-ed, removed, or replaced by a
\* symlink or a non-regular entry.
fs_write ==
    /\ pc = "idle"
    /\ fsops < MaxFsOps
    /\ \E p \in Paths, e \in Entries :
        /\ e # disk[p]
        /\ disk' = [disk EXCEPT ![p] = e]
        /\ delRows' = IF e.kind \in {"file", "symlink"} THEN [delRows EXCEPT ![p] = 0]
                      ELSE delRows
        /\ delDone' = IF e.kind \in {"file", "symlink"} THEN [delDone EXCEPT ![p] = 0]
                      ELSE delDone
    /\ fsops' = fsops + 1
    /\ settled' = FALSE
    /\ UNCHANGED <<mounted, dbExists, dbFile, conn, history, histClosed, pc, cfg, rootIdx,
                   cursor, walk, counters, result, call, store0, applied, visits, examined, idem,
                   passes, logFile>>

\* /r1/m is mounted or unmounted; the files below it stay as they are.
fs_mount ==
    /\ pc = "idle"
    /\ fsops < MaxFsOps
    /\ mounted' = ~mounted
    /\ fsops' = fsops + 1
    /\ settled' = FALSE
    /\ UNCHANGED <<disk, dbExists, dbFile, conn, history, histClosed, pc, cfg, rootIdx,
                   cursor, walk, counters, result, call, store0, applied, visits, examined, idem,
                   delRows, delDone, passes, logFile>>

\* ------------------------------------------------------------------------
\* The reconciliation runs
\* ------------------------------------------------------------------------
Init ==
    /\ disk = [p \in Paths |-> NoFile]
    /\ mounted = FALSE
    /\ dbExists = TRUE
    /\ dbFile = {}
    /\ conn = NoConn
    /\ history = <<>>
    /\ histClosed = TRUE
    /\ logFile = None
    /\ pc = "idle"
    /\ cfg = <<>>
    /\ rootIdx = 0
    /\ cursor = {}
    /\ walk = {}
    /\ counters = ZeroCounters
    /\ result = "None"
    /\ call = NoCall
    /\ store0 = {}
    /\ applied = <<>>
    /\ visits = <<>>
    /\ examined = <<>>
    /\ idem = FALSE
    /\ settled = FALSE
    /\ delRows = [p \in Paths |-> 0]
    /\ delDone = [p \in Paths |-> 0]
    /\ passes = 0
    /\ fsops = 0

Next ==
    \/ main_invalid
    \/ main_enter
    \/ prune_deleted_files
    \/ prune_end
    \/ register_new_files
    \/ register_next
    \/ main_commit
    \/ main_interrupt
    \/ main_exit
    \/ fs_write
    \/ fs_mount

Spec == Init /\ [][Next]_vars

\* ------------------------------------------------------------------------
\* The store used on its own, as tests/test_file_metadata_db.py uses it
\* ------------------------------------------------------------------------
\* The recorded descriptors the calls are made with, each built from a dict:
\* two paths in several spellings, two SHA-256 digests and a hash of 31 bytes, an fs_id that fits
\* an SQLite INTEGER and one that does not.
StoreHashes == {SHA256(1), SHA256(3), [len |-> HASH_LEN - 1, digest |-> 1]}

StoreDicts ==
    {Dict([path |-> p, hash |-> h, size |-> SizeOf(h.digest), mtime |-> 1, fs_id |-> f]) :
        p \in Spellings, h \in StoreHashes, f \in {1, HighFsId}}

StoreInputs == {DbFileMetadata(d).md[1] : d \in StoreDicts}

\* The call `op` made with `md` on the store object, and what it met: the
\* history variable `call` records the arguments, the state before the call
\* and the value returned.
CallOf(op, md, value) ==
    [op |-> op, path |-> md.path, md |-> md, readonly |-> conn.readonly,
     closed |-> conn.is_closed,
     present |-> (\E r \in conn.table : r.path = md.path), table0 |-> conn.table,
     file0 |-> dbFile, pending |-> conn.in_transaction, value |-> value]

Mutation(op, md, r) ==
    /\ conn.open \/ conn.is_closed
    /\ conn' = r.conn
    /\ result' = r.raised
    /\ call' = CallOf(op, md, None)
    /\ UNCHANGED <<dbExists, dbFile, logFile>>

\* FileMetadataDb(db_path, readonly, create_new_db), the store object of the
\* test being closed or not made yet
new_db ==
    /\ ~conn.open
    /\ \E readonly \in BOOLEAN, create_new_db \in BOOLEAN :
        LET o == Construct(readonly, create_new_db, dbExists, dbFile)
        IN  /\ conn' = IF o.raised = "None" THEN o.conn ELSE conn
            /\ dbExists' = o.exists
            /\ dbFile' = o.file
            /\ result' = o.raised
            /\ call' = [op |-> "construct", readonly |-> readonly,
                        create_new_db |-> create_new_db, existed |-> dbExists,
                        file0 |-> dbFile]
    /\ UNCHANGED <<disk, mounted, history, histClosed, pc, cfg, rootIdx, cursor, walk,
                   counters, store0, applied, visits, examined, idem, settled, delRows, delDone,
                   passes, fsops, logFile>>

\* db.add_file(md)
call_add_file ==
    /\ \E md \in StoreInputs : Mutation("add_file", md, add_file(conn, md))
    /\ UNCHANGED <<disk, mounted, history, histClosed, pc, cfg, rootIdx, cursor, walk,
                   counters, store0, applied, visits, examined, idem, settled, delRows, delDone,
                   passes, fsops, logFile>>

\* db.update_file(md)
call_update_file ==
    /\ \E md \in StoreInputs : Mutation("update_file", md, update_file(conn, md))
    /\ UNCHANGED <<disk, mounted, history, histClosed, pc, cfg, rootIdx, cursor, walk,
                   counters, store0, applied, visits, examined, idem, settled, delRows, delDone,
                   passes, fsops, logFile>>

\* db.remove_file(md)
call_remove_file ==
    /\ \E md \in StoreInputs : Mutation("remove_file", md, remove_file(conn, md))
    /\ UNCHANGED <<disk, mounted, history, histClosed, pc, cfg, rootIdx, cursor, walk,
                   counters, store0, applied, visits, examined, idem, settled, delRows, delDone,
                   passes, fsops, logFile>>

\* db.get_file(md)
call_get_file ==
    /\ conn.open \/ conn.is_closed
    /\ \E md \in StoreInputs :
        LET g == get_file(conn, md)
        IN  /\ call' = CallOf("get_file", md, g.value)
            /\ result' = g.raised
    /\ UNCHANGED <<disk, mounted, dbExists, dbFile, conn, history, histClosed, pc, cfg,
                   rootIdx, cursor, walk, counters, store0, applied, visits, examined, idem, settled,
                   delRows, delDone, passes, fsops, logFile>>

\* db.does_exist(md)
call_does_exist ==
    /\ conn.open \/ conn.is_closed
    /\ \E md \in StoreInputs :
        LET e == does_exist(conn, md)
        IN  /\ call' = CallOf("does_exist", md, e.value)
            /\ result' = e.raised
    /\ UNCHANGED <<disk, mounted, dbExists, dbFile, conn, history, histClosed, pc, cfg,
                   rootIdx, cursor, walk, counters, store0, applied, visits, examined, idem, settled,
                   delRows, delDone, passes, fsops, logFile>>

\* list(db.get_all_files())
call_get_all_files ==
    /\ conn.open \/ conn.is_closed
    /\ LET g == get_all_files(conn)
       IN  /\ call' = [op |-> "get_all_files", readonly |-> conn.readonly,
                       closed |-> conn.is_closed, table0 |-> conn.table,
                       file0 |-> dbFile, pending |-> conn.in_transaction,
                       value |-> g.files]
           /\ result' = g.raised
    /\ UNCHANGED <<disk, mounted, dbExists, dbFile, conn, history, histClosed, pc, cfg,
                   rootIdx, cursor, walk, counters, store0, applied, visits, examined, idem, settled,
                   delRows, delDone, passes, fsops, logFile>>

\* list(db.get_files_matching_hash(file_hash))
call_get_files_matching_hash ==
    /\ conn.open \/ conn.is_closed
    /\ \E h \in StoreHashes :
        LET g == get_files_matching_hash(conn, h)
        IN  /\ call' = [op |-> "get_files_matching_hash", hash |-> h,
                        readonly |-> conn.readonly, closed |-> conn.is_closed,
                        table0 |-> conn.table, file0 |-> dbFile,
                        pending |-> conn.in_transaction, value |-> g.files]
            /\ result' = g.raised
    /\ UNCHANGED <<disk, mounted, dbExists, dbFile, conn, history, histClosed, pc, cfg,
                   rootIdx, cursor, walk, counters, store0, applied, visits, examined, idem, settled,
                   delRows, delDone, passes, fsops, logFile>>

\* list(db.get_files_matching_regex(regex))
call_get_files_matching_regex ==
    /\ conn.open \/ conn.is_closed
    /\ \E regex \in Regexes :
        LET g == get_files_matching_regex(conn, regex)
        IN  /\ call' = [op |-> "get_files_matching_regex", regex |-> regex,
                        readonly |-> conn.readonly, closed |-> conn.is_closed,
                        table0 |-> conn.table, file0 |-> dbFile,
                        pending |-> conn.in_transaction, value |-> g.files]
            /\ result' = g.raised
    /\ UNCHANGED <<disk, mounted, dbExists, dbFile, conn, history, histClosed, pc, cfg,
                   rootIdx, cursor, walk, counters, store0, applied, visits, examined, idem,
                   settled, delRows, delDone, passes, fsops, logFile>>

\* db.commit()
call_commit ==
    /\ conn.open \/ conn.is_closed
    /\ LET cm == commit(conn, dbFile)
       IN  /\ conn' = cm.conn
           /\ dbFile' = cm.file
           /\ result' = cm.raised
    /\ call' = [op |-> "commit", readonly |-> conn.readonly, closed |-> conn.is_closed,
                table0 |-> conn.table, file0 |-> dbFile, pending |-> conn.in_transaction]
    /\ UNCHANGED <<disk, mounted, dbExists, history, histClosed, pc, cfg, rootIdx, cursor,
                   walk, counters, store0, applied, visits, examined, idem, settled, delRows, delDone,
                   passes, fsops, logFile>>

\* db.close(), on a store object that exists
call_close ==
    /\ conn.open \/ conn.is_closed
    /\ LET cl == close(conn, dbFile)
       IN  /\ conn' = cl.conn
           /\ dbFile' = cl.file
           /\ result' = cl.raised
    /\ call' = [op |-> "close", readonly |-> conn.readonly, closed |-> conn.is_closed,
                table0 |-> conn.table, file0 |-> dbFile, pending |-> conn.in_transaction,
                conn0 |-> conn]
    /\ UNCHANGED <<disk, mounted, dbExists, history, histClosed, pc, cfg, rootIdx, cursor,
                   walk, counters, store0, applied, visits, examined, idem, settled, delRows, delDone,
                   passes, fsops, logFile>>

\* db_file.unlink(): the test deletes the store file
unlink_db ==
    /\ ~conn.open
    /\ dbExists
    /\ dbExists' = FALSE
    /\ dbFile' = {}
    /\ result' = "None"
    /\ call' = [op |-> "unlink"]
    /\ UNCHANGED <<disk, mounted, conn, history, histClosed, pc, cfg, rootIdx, cursor,
                   walk, counters, store0, applied, visits, examined, idem, settled, delRows, delDone,
                   passes, fsops, logFile>>

StoreInit ==
    /\ disk = [p \in Paths |-> NoFile]
    /\ mounted = FALSE
    /\ dbExists = FALSE
    /\ dbFile = {}
    /\ conn = NoConn
    /\ history = <<>>
    /\ histClosed = TRUE
    /\ logFile = None
    /\ pc = "idle"
    /\ cfg = <<>>
    /\ rootIdx = 0
    /\ cursor = {}
    /\ walk = {}
    /\ counters = ZeroCounters
    /\ result = "None"
    /\ call = NoCall
    /\ store0 = {}
    /\ applied = <<>>
    /\ visits = <<>>
    /\ examined = <<>>
    /\ idem = FALSE
    /\ settled = FALSE
    /\ delRows = [p \in Paths |-> 0]
    /\ delDone = [p \in Paths |-> 0]
    /\ passes = 0
    /\ fsops = 0

StoreNext ==
    \/ new_db
    \/ call_add_file
    \/ call_update_file
    \/ call_remove_file
    \/ call_get_file
    \/ call_does_exist
    \/ call_get_all_files
    \/ call_get_files_matching_hash
    \/ call_get_files_matching_regex
    \/ call_commit
    \/ call_close
    \/ unlink_db

StoreSpec == StoreInit /\ [][StoreNext]_vars

\* ------------------------------------------------------------------------
\* The history log used on its own
\* ------------------------------------------------------------------------
\* What a caller can pass as action and as reason: the names of LOG_ACTIONS
\* and one name more of each kind.
LogActions == DOMAIN LOG_ACTIONS \cup {"rename"}
LogReasons == UNION {LOG_ACTIONS[a] : a \in DOMAIN LOG_ACTIONS} \cup {"moved"}

\* The descriptors handed to add: the live descriptor of /r1/a, just made,
\* and a recorded descriptor of /r1/m/b.
LogInputs ==
    {FileMetadata(p).md[1] : p \in {q \in {PA} : FileMetadata(q).raised = "None"}}
    \cup {md \in StoreInputs : md.path = PB /\ md.fs_id = Some(HighFsId)
                                /\ md.hash = Some(SHA256(3))}

\* A file that is no history log
OtherFile == <<[action |-> "#", reason |-> "", path |-> "", new_hash |-> ""]>>

\* A FileMetadataHistoryLog object has been made
HasLog == call.op \in {"FileMetadataHistoryLog", "add", "close"} /\ call.made

\* What a call on the history log met: the object, the rows and the file
\* before the call.
LogCall(op, made) ==
    [op |-> op, made |-> made, closed0 |-> histClosed, rows0 |-> history,
     file0 |-> logFile]

\* FileMetadataHistoryLog(log_path), at the one path of this log folder; a
\* second object at the path of an open log leaves the first as it is.
call_FileMetadataHistoryLog ==
    /\ LET lg == FileMetadataHistoryLog(logFile)
       IN  /\ logFile' = lg.file
           /\ result' = lg.raised
           /\ IF lg.raised = "None"
              THEN /\ history' = <<>>
                   /\ histClosed' = FALSE
                   /\ call' = LogCall("FileMetadataHistoryLog", TRUE)
              ELSE /\ call' = LogCall("FileMetadataHistoryLog", HasLog)
                   /\ UNCHANGED <<history, histClosed>>
    /\ UNCHANGED <<disk, mounted, dbExists, dbFile, conn, pc, cfg, rootIdx, cursor, walk,
                   counters, store0, applied, visits, examined, idem, settled, delRows, delDone,
                   passes, fsops>>

\* history.add(action, reason, file)
call_history_add ==
    /\ HasLog
    /\ \E action \in LogActions, reason \in LogReasons, md \in LogInputs :
        LET r == history_add(history, histClosed, action, reason, md)
        IN  /\ Len(r.rows) <= MaxRows
            /\ history' = r.rows
            /\ logFile' = writerow(logFile, history, r.rows)
            /\ result' = r.raised
            /\ call' = [LogCall("add", TRUE) EXCEPT !.op = "add"] @@
                        [action |-> action, reason |-> reason, md |-> md, after |-> r.md]
    /\ UNCHANGED <<disk, mounted, dbExists, dbFile, conn, histClosed, pc, cfg, rootIdx,
                   cursor, walk, counters, store0, applied, visits, examined, idem, settled, delRows,
                   delDone, passes, fsops>>

\* history.close()
call_history_close ==
    /\ HasLog
    /\ LET c == history_close(histClosed)
       IN  /\ histClosed' = c.closed
           /\ result' = c.raised
    /\ call' = LogCall("close", TRUE)
    /\ UNCHANGED <<disk, mounted, dbExists, dbFile, conn, history, logFile, pc, cfg,
                   rootIdx, cursor, walk, counters, store0, applied, visits, examined, idem, settled,
                   delRows, delDone, passes, fsops>>

LogInit ==
    /\ disk \in {d \in [Paths -> Entries] :
                    /\ d[PB] = NoFile
                    /\ d[PA] \in RegularFiles /\ d[PA].mtime = 1 /\ d[PA].content = 1}
    /\ mounted = FALSE
    /\ dbExists = FALSE
    /\ dbFile = {}
    /\ conn = NoConn
    /\ history = <<>>
    /\ histClosed = TRUE
    /\ logFile \in {None, Some(OtherFile)}
    /\ pc = "idle"
    /\ cfg = <<>>
    /\ rootIdx = 0
    /\ cursor = {}
    /\ walk = {}
    /\ counters = ZeroCounters
    /\ result = "None"
    /\ call = NoCall
    /\ store0 = {}
    /\ applied = <<>>
    /\ visits = <<>>
    /\ examined = <<>>
    /\ idem = FALSE
    /\ settled = FALSE
    /\ delRows = [p \in Paths |-> 0]
    /\ delDone = [p \in Paths |-> 0]
    /\ passes = 0
    /\ fsops = 0

LogNext ==
    \/ call_FileMetadataHistoryLog
    \/ call_history_add
    \/ call_history_close

LogSpec == LogInit /\ [][LogNext]_vars

\* ------------------------------------------------------------------------
\* The live descriptor used on its own, as tests/test_filemetadata.py uses it
\* ------------------------------------------------------------------------
\* FileMetadata(path), on whatever is at the path. `md` is the object from
\* then on, `made` the object as the constructor left it, `hash1` and `fsid1`
\* the first value its hash and its fs_id returned, `hashed` the number of
\* times its file was read through.
call_FileMetadata ==
    /\ \E p \in Paths :
        LET fm == FileMetadata(p)
        IN  /\ call' = [op |-> "FileMetadata", path |-> p, entry |-> disk[p],
                        value |-> fm.md, md |-> fm.md, made |-> fm.md,
                        hash1 |-> None, fsid1 |-> None, hashed |-> 0]
            /\ result' = fm.raised
    /\ UNCHANGED <<disk, mounted, dbExists, dbFile, conn, history, histClosed, pc, cfg,
                   rootIdx, cursor, walk, counters, store0, applied, visits, examined, idem, settled,
                   delRows, delDone, passes, fsops, logFile>>

\* The object the calls below are made on
HasDescriptor == call.op \in {"FileMetadata", "hash", "fs_id", "as_sql_dict"} /\ call.md # None

\* fm.hash
call_hash ==
    /\ HasDescriptor
    /\ LET md == call.md[1]
           h == fm_hash(md)
       IN  /\ call' = [call EXCEPT
                    !.op = "hash", !.value = h.value,
                    !.md = Some(hash_cached(md)),
                    !.hash1 = IF @ = None THEN h.value ELSE @,
                    !.hashed = IF md.hash = None /\ h.raised = "None" THEN @ + 1 ELSE @]
           /\ result' = h.raised
    /\ UNCHANGED <<disk, mounted, dbExists, dbFile, conn, history, histClosed, pc, cfg,
                   rootIdx, cursor, walk, counters, store0, applied, visits, examined, idem, settled,
                   delRows, delDone, passes, fsops, logFile>>

\* fm.fs_id
call_fs_id ==
    /\ HasDescriptor
    /\ LET md == call.md[1]
           raised == fs_id_raised(md)
           v == IF raised = "None" THEN Some(fm_fs_id(md)) ELSE None
       IN  /\ call' = [call EXCEPT
                    !.op = "fs_id", !.value = v,
                    !.md = Some(fs_id_cached(md)),
                    !.fsid1 = IF @ = None THEN v ELSE @]
           /\ result' = raised
    /\ UNCHANGED <<disk, mounted, dbExists, dbFile, conn, history, histClosed, pc, cfg,
                   rootIdx, cursor, walk, counters, store0, applied, visits, examined, idem, settled,
                   delRows, delDone, passes, fsops, logFile>>

\* fm.as_sql_dict(include_hash): with the hash, the file is read as it is
\* now unless the object holds a hash already
call_as_sql_dict ==
    /\ HasDescriptor
    /\ \E include_hash \in BOOLEAN :
        LET md == call.md[1]
            d == as_sql_dict(md, include_hash)
            h == IF include_hash THEN fm_hash(md) ELSE [raised |-> "None", value |-> None]
            after == as_sql_dict_cached(md, include_hash)
        IN  /\ call' = [call EXCEPT
                    !.op = "as_sql_dict",
                    !.value = IF d.raised = "None" THEN Some(d.dict) ELSE None,
                    !.md = Some(after),
                    !.hash1 = IF @ = None THEN h.value ELSE @,
                    !.fsid1 = IF @ = None THEN after.fs_id ELSE @,
                    !.hashed = IF md.hash = None /\ after.hash # None THEN @ + 1 ELSE @]
            /\ result' = d.raised
    /\ UNCHANGED <<disk, mounted, dbExists, dbFile, conn, history, histClosed, pc, cfg,
                   rootIdx, cursor, walk, counters, store0, applied, visits, examined, idem, settled,
                   delRows, delDone, passes, fsops, logFile>>

FileInit ==
    /\ disk \in {d \in [Paths -> Entries] : d[PB] = NoFile}
    /\ mounted = FALSE
    /\ dbExists = FALSE
    /\ dbFile = {}
    /\ conn = NoConn
    /\ history = <<>>
    /\ histClosed = TRUE
    /\ logFile = None
    /\ pc = "idle"
    /\ cfg = <<>>
    /\ rootIdx = 0
    /\ cursor = {}
    /\ walk = {}
    /\ counters = ZeroCounters
    /\ result = "None"
    /\ call = NoCall
    /\ store0 = {}
    /\ applied = <<>>
    /\ visits = <<>>
    /\ examined = <<>>
    /\ idem = FALSE
    /\ settled = FALSE
    /\ delRows = [p \in Paths |-> 0]
    /\ delDone = [p \in Paths |-> 0]
    /\ passes = 0
    /\ fsops = 0

FileNext ==
    \/ call_FileMetadata
    \/ call_hash
    \/ call_fs_id
    \/ call_as_sql_dict
    \/ fs_write
    \/ fs_mount

FileSpec == FileInit /\ [][FileNext]_vars

\* ------------------------------------------------------------------------
\* Properties of the reconciliation runs
\* ------------------------------------------------------------------------
InPass == pc \in {"prune", "register", "commit"}
Committed == pc = "done" /\ result = "committed"
Aborted == pc = "done" /\ result # "committed"
PruneDone == pc # "idle" /\ rootIdx >= 1

Regular(p) == disk[p].kind = "file"
Readable(p) == disk[p].readable
\* the configured roots a path lies under, and whether its fs_id is the one
\* configured for one of them
CfgRoots(p) == {i \in DOMAIN cfg : Under(p, cfg[i].root)}
Matches(p) == \E i \in CfgRoots(p) : get_fsid(p) = cfg[i].fs_id
LiveRow(p, r) ==
    r.size = disk[p].size /\ r.mtime = disk[p].mtime /\ r.fs_id = get_fsid(p)
Written(p) ==
    \E i \in DOMAIN applied : applied[i].path = p /\ applied[i].op \in {"insert", "update"}
\* the hash of a row is that of the content read by the insert or update of
\* this run, or the row is as it was when the run started
HashAsRead(p, r) ==
    IF Written(p) THEN r.hash = SHA256(disk[p].content) ELSE r \in store0
RowCount(action, p) ==
    Cardinality({i \in DOMAIN history : history[i].action = action /\ history[i].path = p})
AppliedCount(op, p) ==
    Cardinality({i \in DOMAIN applied : applied[i].op = op /\ applied[i].path = p})
ConfiguredFsId(p) == \A r \in RowsOf(store0, p) : r.fs_id \in allowed_fsids(cfg)

Ended == pc = "done" /\ result # "KeyboardInterrupt"

\* C2 as stated: a run after a committed run, same config, nothing changed on
\* disk, runs to its commit, applies nothing and logs skip/unchanged for every
\* file it visits.
C2_AsStated ==
    (idem /\ Ended) =>
        /\ result = "committed"
        /\ applied = <<>>
        /\ \A i \in DOMAIN visits :
            Regular(visits[i].path) => visits[i].action = "skip"

\* a file under a configured root whose row differs from it in size or mtime
\* when the run starts
Changed0(p) ==
    /\ Regular(p)
    /\ CfgRoots(p) # {}
    /\ \E r \in RowsOf(store0, p) : r.size # disk[p].size \/ r.mtime # disk[p].mtime

UpdatedTo(p) ==
    /\ RowCount("update", p) = 1
    /\ RowsOf(dbFile, p) # {}
    /\ \A r \in RowsOf(dbFile, p) :
        /\ r.size = disk[p].size
        /\ r.mtime = disk[p].mtime
        /\ r.hash = SHA256(disk[p].content)

\* C3 as stated: a file whose size or mtime differs from its row when a run
\* starts gets exactly one update/changed row in that run, after which its
\* row has the live size, mtime and hash; a following run without a change
\* logs no update.
C3_AsStated ==
    /\ Ended => \A p \in Paths : Changed0(p) => (Committed /\ UpdatedTo(p))
    /\ idem => \A p \in Paths : RowCount("update", p) = 0

\* what the prune phase has done to the row of a path that is no file
PrunedOnce(p) ==
    IF RowsOf(store0, p) = {} THEN DelCount(history, p) = 0
    ELSE /\ DelCount(history, p) = 1
         /\ AppliedCount("delete", p) = 1
         /\ conn.open => RowsOf(conn.table, p) = {}
         /\ ConfiguredFsId(p) =>
                \A i \in DOMAIN history :
                    (history[i].action = "delete" /\ history[i].path = p)
                    => history[i].reason = "nonexistent"

\* C4 as stated: the row (of a configured fs_id) of a file that is gone is
\* deleted and logged once, delete/nonexistent, by the prune phase of the run
\* that meets it, and while the file stays absent no later run logs a delete
\* for it.
C4_AsStated ==
    \A p \in Paths : (~is_file(p) /\ ConfiguredFsId(p)) =>
        /\ (PruneDone \/ Ended) => PrunedOnce(p)
        /\ delRows[p] <= 1

Mismatch(v) == Regular(v.path) /\ get_fsid(v.path) # cfg[v.root].fs_id

\* C5 as stated, visit by visit: a file visited under a root whose configured
\* fs_id is not the file's is logged error/unexpected_fs_id, and the visit
\* applies no insert or update and leaves the row of the path as it was.
C5_AsStated ==
    \A i \in DOMAIN visits : Mismatch(visits[i]) =>
        /\ visits[i].action = "error"
        /\ visits[i].rows = 1
        /\ visits[i].after = visits[i].before

\* C6: the committed content of the store is during a run what it was when
\* the run started, whatever the run has deleted, inserted or updated, and
\* stays so when the run ends without its commit: the store then reopens
\* with the content it had before the run.
C6_SingleCommit ==
    (InPass \/ Aborted) =>
        /\ dbFile = store0
        /\ Aborted =>
            /\ ~conn.open
            /\ Construct(TRUE, FALSE, dbExists, dbFile).conn.table = store0

C6_Witness ==
    /\ Aborted
    /\ result = "KeyboardInterrupt"
    /\ rootIdx >= 1
    /\ Len(applied) = 2
    /\ store0 = {}
    /\ Construct(TRUE, FALSE, dbExists, dbFile).conn.table = {}

IsMutation(row) == row.action \in {"new", "update", "delete"}
MutationRows == SelectSeq(history, IsMutation)
ActionOf(op) == IF op = "insert" THEN "new" ELSE op

\* C7: the mutations applied to the store in a run and the new, update and
\* delete rows of its history log are the same, in the same order, at every
\* point of the run up to its commit, and also after the run has ended
\* without a commit.
C7_LoggedBeforeCommit ==
    pc # "idle" =>
        /\ Len(MutationRows) = Len(applied)
        /\ \A i \in DOMAIN applied :
            /\ MutationRows[i].path = applied[i].path
            /\ MutationRows[i].action = ActionOf(applied[i].op)

C7_Witness ==
    /\ Aborted
    /\ result = "TypeError"
    /\ Len(applied) >= 1
    /\ Len(MutationRows) = Len(applied)
    /\ dbFile = store0

\* a visit in which the file's hash is needed and cannot be read
PermCase(v) ==
    /\ Regular(v.path)
    /\ ~Readable(v.path)
    /\ get_fsid(v.path) = cfg[v.root].fs_id
    /\ v.before = {} \/ \E r \in v.before : ~LiveRow(v.path, r)

\* C8: a visit of the register phase that fails on a permission error when
\* the file is hashed changes no row of the store, writes no history row,
\* adds one to the error counter and lets the loop go on.
C8_PermissionError ==
    \A i \in DOMAIN visits : PermCase(visits[i]) =>
        /\ visits[i].after = visits[i].before
        /\ visits[i].others
        /\ visits[i].rows = 0
        /\ visits[i].errors = 1
        /\ visits[i].raised = "None"
        /\ (i = Len(visits) /\ pc = "done") => result # "PermissionError"

C8_Witness ==
    /\ Committed
    /\ counters.errors = 1
    /\ \E i \in DOMAIN visits :
        /\ i < Len(visits)
        /\ PermCase(visits[i])
        /\ visits[i + 1].action = "new"

\* ------------------------------------------------------------------------
\* Properties of the store used on its own
\* ------------------------------------------------------------------------
\* C9: creating a store where no file exists succeeds and gives an empty
\* store; creating where a file exists raises FileExistsError and leaves the
\* file's content as it was; opening where no file exists raises
\* FileNotFoundError; creating in read-only mode fails and creates no file.
C9_Constructor ==
    call.op = "construct" =>
        /\ (call.create_new_db /\ ~call.readonly /\ ~call.existed) =>
            /\ result = "None"
            /\ dbExists /\ dbFile = {}
            /\ conn.open /\ ~conn.readonly /\ conn.table = {}
        /\ (call.create_new_db /\ ~call.readonly /\ call.existed) =>
            /\ result = "FileExistsError"
            /\ dbExists /\ dbFile = call.file0
        /\ (~call.create_new_db /\ ~call.existed) =>
            /\ result = "FileNotFoundError"
            /\ ~dbExists
        /\ (call.create_new_db /\ call.readonly) =>
            /\ result \notin {"None", "FileExistsError", "FileNotFoundError"}
            /\ dbExists = call.existed /\ dbFile = call.file0
        /\ result # "None" => ~conn.open

C9_Witness ==
    /\ call.op = "construct"
    /\ call.create_new_db /\ ~call.readonly /\ call.existed
    /\ result = "FileExistsError"
    /\ dbFile # {}

\* C10 as stated: on a store opened read-only add_file, update_file and
\* remove_file raise RuntimeError, for a path that is in the store and for one
\* that is not, and leave the store as it was; get_file on it succeeds, with
\* the descriptor of the row of the path, or None.
C10_AsStated ==
    (/\ call.op \in {"add_file", "update_file", "remove_file", "get_file"}
     /\ call.readonly /\ ~call.closed) =>
        /\ conn.table = call.table0
        /\ dbFile = call.file0
        /\ ~conn.in_transaction
        /\ call.op # "get_file" => result = "RuntimeError"
        /\ call.op = "get_file" =>
            /\ result = "None"
            /\ call.present => call.value # None
            /\ \A v \in {call.value} : v # None =>
                RowOf(as_sql_dict(v[1], TRUE).dict) \in call.table0

\* the row a recorded descriptor stands for
DescRow(v) == RowOf(as_sql_dict(v, TRUE).dict)

OnePerPath(tbl) == \A p \in Paths : Cardinality(RowsOf(tbl, p)) <= 1

\* a call made on an open store that takes writes
Writable == ~call.readonly /\ ~call.closed

\* C11 as stated: add_file of a path that is in the store raises
\* IntegrityError and the row of the path stays as it was; add_file of a path
\* that is not in the store adds the row of the descriptor and changes no
\* other; the store holds at most one row for a path.
C11_AsStated ==
    /\ (call.op = "add_file" /\ Writable) =>
        /\ call.present => (result = "IntegrityError" /\ conn.table = call.table0)
        /\ ~call.present =>
            /\ result = "None"
            /\ conn.table = call.table0 \cup {DescRow(call.md)}
    /\ OnePerPath(conn.table) /\ OnePerPath(dbFile)

\* C12 as stated: update_file of a path that is not in the store raises
\* FileNotFoundError and leaves the store as it was; update_file of a path
\* that is in the store replaces the hash, size, mtime and fs_id of its row
\* by those of the descriptor and changes no other row, and get_file of a
\* path that is in the store returns the fields of its row.
C12_AsStated ==
    /\ (call.op = "update_file" /\ Writable) =>
        /\ ~call.present => (result = "FileNotFoundError" /\ conn.table = call.table0)
        /\ call.present =>
            /\ result = "None"
            /\ conn.table = (call.table0 \ RowsOf(call.table0, call.path))
                            \cup {DescRow(call.md)}
    /\ (call.op = "get_file" /\ ~call.closed /\ call.present) =>
        /\ result = "None"
        /\ call.value # None
        /\ \A v \in {call.value} : v # None => DescRow(v[1]) \in call.table0

\* C13: remove_file of a path that is in the store removes the row of that
\* path and no other, after which does_exist of the path is false;
\* remove_file of a path that is not in the store (a path removed before
\* included) raises FileNotFoundError and leaves the rows as they were; what
\* is committed changes with neither; does_exist tells whether the path has
\* a row.
C13_Delete ==
    /\ (call.op = "remove_file" /\ Writable) =>
        /\ call.present =>
            /\ result = "None"
            /\ conn.table = call.table0 \ RowsOf(call.table0, call.path)
            /\ does_exist(conn, call.md) = [raised |-> "None", value |-> FALSE]
        /\ ~call.present => (result = "FileNotFoundError" /\ conn.table = call.table0)
        /\ conn.table \subseteq call.table0
        /\ dbFile = call.file0
    /\ (call.op = "does_exist" /\ ~call.closed) =>
        (result = "None" /\ call.value = call.present)

C13_Witness ==
    /\ call.op = "remove_file"
    /\ Writable
    /\ ~call.present
    /\ result = "FileNotFoundError"
    /\ RowsOf(dbFile, call.path) # {}
    /\ conn.table # {}

\* C14 as stated: every row of the store, committed or not, has a hash of
\* exactly 32 bytes.
C14_AsStated ==
    \A r \in conn.table \cup dbFile : r.hash.len = HASH_LEN

C16_CloseIdempotent ==
    /\ (call.op = "close" /\ call.closed) =>
        (result = "None" /\ conn = call.conn0 /\ dbFile = call.file0)
    /\ (call.op = "commit" /\ ~call.closed /\ ~call.pending) =>
        (result = "None" /\ dbFile = call.file0 /\ conn.table = call.table0)

C16_Witness ==
    /\ call.op = "close"
    /\ call.closed
    /\ result = "None"
    /\ dbFile # {}

\* C17 as stated: get_files_matching_hash with a hash that is not of 32 bytes
\* raises ValueError and yields nothing; with a hash of 32 bytes it yields
\* the descriptors of the rows of that hash, all of them and no other, and
\* raises nothing, also when no row has the hash.
C17_AsStated ==
    (call.op = "get_files_matching_hash" /\ ~call.closed) =>
        IF call.hash.len # HASH_LEN
        THEN result = "ValueError" /\ call.value = {}
        ELSE /\ result = "None"
             /\ {DescRow(v) : v \in call.value} = {r \in call.table0 : r.hash = call.hash}

\* C18 as stated: get_all_files on an open store yields the descriptors of
\* the rows of the store, all of them and no other, and raises nothing, also
\* when the store is empty.
C18_AsStated ==
    (call.op = "get_all_files" /\ ~call.closed) =>
        /\ result = "None"
        /\ {DescRow(v) : v \in call.value} = call.table0

\* the field sets of records: the path is in its canonical form
RecordDicts == {d \in StoreDicts : d.fields.path \in Paths}

\* C19 as stated: a recorded descriptor built from the fields d of a record
\* serializes, hash included, to d; add_file of it on a store that has no row
\* of the path puts the row d in the store, and get_file of a path returns
\* a descriptor that serializes to the row of the path.
C19_AsStated ==
    /\ \A d \in RecordDicts :
        /\ DbFileMetadata(d).raised = "None"
        /\ as_sql_dict(DbFileMetadata(d).md[1], TRUE).raised = "None"
        /\ DescRow(DbFileMetadata(d).md[1]) = d.fields
    /\ (call.op = "get_file" /\ ~call.closed /\ call.present) =>
        /\ result = "None"
        /\ call.value # None
        /\ \A v \in {call.value} : v # None =>
            DescRow(v[1]) \in RowsOf(call.table0, call.path)

C21_Cached ==
    HasDescriptor =>
        /\ call.hashed <= 1
        /\ (call.op = "hash" /\ result = "None") => call.value = call.hash1
        /\ (call.op = "fs_id" /\ result = "None") => call.value = call.fsid1
        /\ (call.op = "as_sql_dict" /\ result = "None") =>
            /\ call.value[1].hash \in {None, call.hash1}
            /\ Some(call.value[1].fs_id) = call.fsid1
            /\ call.value[1].path = call.made[1].path
            /\ call.value[1].size = call.made[1].size
            /\ call.value[1].mtime = call.made[1].mtime
        /\ call.md[1].path = call.made[1].path
        /\ call.md[1].size = call.made[1].size
        /\ call.md[1].mtime = call.made[1].mtime
        /\ call.hash1 # None => call.md[1].hash = call.hash1
        /\ call.fsid1 # None => call.md[1].fs_id = call.fsid1

\* a second access to the hash, after the file was rewritten with another
\* content and size and moved to another filesystem
C21_Witness ==
    /\ call.op = "hash"
    /\ result = "None"
    /\ call.hashed = 1
    /\ call.value = call.hash1
    /\ disk[call.path].kind = "file"
    /\ disk[call.path].readable
    /\ SHA256(disk[call.path].content) # call.value[1]
    /\ disk[call.path].size # call.md[1].size

\* ------------------------------------------------------------------------
\* Properties of the history log
\* ------------------------------------------------------------------------
\* C22: FileMetadataHistoryLog(path) on a path where something is raises
\* FileExistsError and leaves the file, and the open log if it is one, as
\* they were; on a free path it creates the file with the header as its only
\* line; and the file of a log is the header followed by the rows added.
C22_WriteOnce ==
    /\ call.op = "FileMetadataHistoryLog" =>
        /\ call.file0 # None =>
            /\ result = "FileExistsError"
            /\ logFile = call.file0
            /\ history = call.rows0
            /\ histClosed = call.closed0
        /\ call.file0 = None =>
            /\ result = "None"
            /\ logFile = Some(<<CSV_HEADER>>)
            /\ ~histClosed
    /\ HasLog =>
        /\ logFile # None
        /\ logFile[1] = <<CSV_HEADER>> \o history

\* a second log is opened at the path of a log that holds a row
C22_Witness ==
    /\ call.op = "FileMetadataHistoryLog"
    /\ result = "FileExistsError"
    /\ call.made
    /\ Len(call.rows0) = 1
    /\ logFile = Some(<<CSV_HEADER>> \o call.rows0)

RecognizedPairs ==
    {<<"new", "new_file">>, <<"update", "changed">>, <<"delete", "nonexistent">>,
     <<"delete", "invalid_fs_id">>, <<"skip", "unchanged">>,
     <<"error", "unexpected_fs_id">>}

\* C23: add with an (action, reason) outside the six recognized pairs raises
\* ValueError and writes nothing, so every row of the log carries one of the
\* six pairs.
C23_Validation ==
    /\ (call.op = "add" /\ <<call.action, call.reason>> \notin RecognizedPairs) =>
        /\ result = "ValueError"
        /\ history = call.rows0
        /\ logFile = call.file0
    /\ \A i \in DOMAIN history :
        <<history[i].action, history[i].reason>> \in RecognizedPairs

\* an open log is asked to add a known action with the reason of another
C23_Witness ==
    /\ call.op = "add"
    /\ ~call.closed0
    /\ call.action = "delete"
    /\ call.reason = "changed"
    /\ result = "ValueError"
    /\ history = call.rows0

\* C24: a row carries a hash, the hex form of the descriptor's, exactly when
\* its action is new or update; an add of another action leaves new_hash out
\* and leaves the descriptor as it was, its hash unread.
C24_HashForNewUpdate ==
    /\ \A i \in DOMAIN history :
        (history[i].new_hash # None) <=> (history[i].action \in {"new", "update"})
    /\ (call.op = "add" /\ result = "None" /\ call.action \in {"new", "update"}) =>
        /\ call.after.hash # None
        /\ history[Len(history)].new_hash = Some(hex(call.after.hash[1]))
    /\ (call.op = "add" /\ call.action \notin {"new", "update"}) =>
        call.after = call.md

\* a skip row is written for a live descriptor whose hash was never read
C24_Witness ==
    /\ call.op = "add"
    /\ result = "None"
    /\ call.action = "skip"
    /\ call.md.hash = None
    /\ call.after.hash = None
    /\ history = Append(call.rows0, [action |-> "skip", reason |-> "unchanged",
                                     path |-> call.md.path, new_hash |-> None])

\* C25: on a closed log every add raises ValueError and writes nothing,
\* whatever its arguments, and close does nothing and raises nothing.
C25_Closed ==
    /\ (call.op = "add" /\ call.closed0) =>
        /\ result = "ValueError"
        /\ history = call.rows0
        /\ logFile = call.file0
        /\ histClosed
    /\ call.op = "close" =>
        /\ result = "None"
        /\ histClosed
        /\ history = call.rows0
        /\ logFile = call.file0

\* a recognized pair is added to a closed log that holds a row
C25_Witness ==
    /\ call.op = "add"
    /\ call.closed0
    /\ <<call.action, call.reason>> \in RecognizedPairs
    /\ Len(call.rows0) = 1
    /\ result = "ValueError"

\* ------------------------------------------------------------------------
\* Properties of the reconciliation run: validation, counters, phases
\* ------------------------------------------------------------------------
\* C26: a run whose config names a root that is no directory, or a root whose
\* live fs_id is not the configured one, ends before anything is opened: no
\* history log file exists, no store object, the store file is as it was,
\* nothing was applied, visited, logged or counted; and a run that is in one
\* of its phases has a config in which every root is a directory of the
\* configured fs_id.
C26_FailFast ==
    /\ (call.op = "main" /\ call.raised # "None") =>
        /\ pc = "idle"
        /\ logFile = None
        /\ conn = NoConn
        /\ dbFile = call.file0
        /\ history = <<>>
        /\ histClosed
        /\ applied = <<>>
        /\ visits = <<>>
        /\ counters = ZeroCounters
    /\ InPass =>
        \A i \in DOMAIN cfg : is_dir(cfg[i].root) /\ cfg[i].fs_id = get_fsid(cfg[i].root)

\* a run over a store that holds a record is refused for an fs_id
C26_Witness ==
    /\ call.op = "main"
    /\ call.raised = "ValueError"
    /\ pc = "idle"
    /\ dbFile # {}
    /\ dbFile = call.file0
    /\ logFile = None

ActionRows(action) == Cardinality({i \in DOMAIN history : history[i].action = action})
PermCases == Cardinality({i \in DOMAIN visits : PermCase(visits[i])})

Appended(old, new) == Len(new) >= Len(old) /\ SubSeq(new, 1, Len(old)) = old

DeleteRows(p, reason) ==
    Cardinality({i \in DOMAIN history :
        history[i].action = "delete" /\ history[i].path = p /\ history[i].reason = reason})

\* C29 as stated: when the prune phase of a run is over, every record the
\* store held when the run started has been deleted once and logged once as
\* delete/invalid_fs_id if its fs_id is not a configured one, whether its
\* file exists or not; else deleted once and logged once as
\* delete/nonexistent if its path is no file; else neither deleted nor
\* logged, and still in the store with the fields it had.
C29_AsStated ==
    (PruneDone \/ Ended) => \A r \in store0 :
        IF r.fs_id \notin allowed_fsids(cfg)
        THEN /\ AppliedCount("delete", r.path) = 1
             /\ DeleteRows(r.path, "invalid_fs_id") = 1
             /\ DelCount(history, r.path) = 1
        ELSE IF ~is_file(r.path)
        THEN /\ AppliedCount("delete", r.path) = 1
             /\ DeleteRows(r.path, "nonexistent") = 1
             /\ DelCount(history, r.path) = 1
        ELSE /\ AppliedCount("delete", r.path) = 0
             /\ DelCount(history, r.path) = 0
             /\ (pc = "register" /\ visits = <<>>) => r \in conn.table

\* a visit of a readable regular file under a root of the file's fs_id
Decided(v) ==
    /\ Regular(v.path)
    /\ Readable(v.path)
    /\ get_fsid(v.path) = cfg[v.root].fs_id

\* the record the live file at p makes
RecordOf(p) ==
    [path |-> p, hash |-> SHA256(disk[p].content), size |-> disk[p].size,
     mtime |-> disk[p].mtime, fs_id |-> get_fsid(p)]

Differs(r, p) ==
    r.size # disk[p].size \/ r.mtime # disk[p].mtime \/ r.fs_id # get_fsid(p)

\* C30 as stated: each visit of the register phase to a (readable) regular
\* file of its root's fs_id writes exactly one row: new/new_file with the
\* file's record inserted when the path had none; update/changed with the
\* record replaced by the file's when it had one that differs in size, mtime
\* or fs_id; skip/unchanged with the store left as it was otherwise.
C30_AsStated ==
    \A i \in DOMAIN visits : Decided(visits[i]) =>
        LET v == visits[i] IN
        /\ v.raised = "None"
        /\ v.rows = 1
        /\ v.others
        /\ v.before = {} => (v.action = "new" /\ v.after = {RecordOf(v.path)})
        /\ (\E r \in v.before : Differs(r, v.path)) =>
            (v.action = "update" /\ v.after = {RecordOf(v.path)})
        /\ (v.before # {} /\ \A r \in v.before : ~Differs(r, v.path)) =>
            (v.action = "skip" /\ v.after = v.before)

\* a file under configured roots of its own fs_id whose row, when the run
\* starts, has its size, mtime and fs_id but the hash of another content
SilentChange0(p) ==
    /\ Regular(p)
    /\ CfgRoots(p) # {}
    /\ \A i \in CfgRoots(p) : cfg[i].fs_id = get_fsid(p)
    /\ RowsOf(store0, p) # {}
    /\ \A r \in RowsOf(store0, p) :
        LiveRow(p, r) /\ r.hash # SHA256(disk[p].content)

\* C31 as stated: a file whose content changed while its size, mtime and
\* fs_id still equal those of its row is logged skip/unchanged by the run
\* that visits it, and its row keeps the old hash.
C31_AsStated ==
    Ended => \A p \in Paths : SilentChange0(p) =>
        /\ Committed
        /\ RowCount("skip", p) >= 1
        /\ RowCount("update", p) = 0
        /\ RowsOf(dbFile, p) = RowsOf(store0, p)

\* C32 as stated: an entry met by the walk that is a symlink, a device, a
\* socket or another non-regular file is skipped by the register phase: no
\* row is inserted or updated for it, no history row is written, and the run
\* goes on.
C32_AsStated ==
    \A i \in DOMAIN visits :
        LET v == visits[i] IN
        disk[v.path].kind \in {"symlink", "dangling", "other"} =>
            /\ v.raised = "None"
            /\ v.action = "none"
            /\ v.rows = 0
            /\ v.after = v.before

\* C33 as stated, its last sentence: a permission error on a single file or
\* directory never keeps a run from reaching its commit, so no run ends with
\* a PermissionError, and a run that met only permission errors commits.
C33_AsStated ==
    pc = "done" => result # "PermissionError"

\* the call was made in a read-write session that has changes it has not
\* committed
Uncommitted ==
    /\ ~call.closed
    /\ ~call.readonly
    /\ call.pending
    /\ call.table0 # call.file0

\* C34 as stated: in a read-write session, does_exist, get_file and
\* get_all_files made after inserts, updates and deletes that are not
\* committed answer from the rows as those changes left them: does_exist
\* tells whether the path has a row, get_file returns the fields of the row
\* of the path or nothing, and get_all_files yields every row.
C34_AsStated ==
    /\ (call.op = "does_exist" /\ Uncommitted) =>
        /\ result = "None"
        /\ call.value = call.present
    /\ (call.op = "get_file" /\ Uncommitted) =>
        /\ result = "None"
        /\ IF call.present
           THEN /\ call.value # None
                /\ \A v \in {call.value} : v # None => DescRow(v[1]) \in call.table0
           ELSE call.value = None
    /\ (call.op = "get_all_files" /\ Uncommitted) =>
        /\ result = "None"
        /\ {DescRow(v) : v \in call.value} = call.table0

\* how many times the body of the prune loop has run on the row r
Examined(r) == Cardinality({i \in DOMAIN examined : examined[i] = r})

\* C35 as stated: the prune phase examines every row the store had when the
\* run started exactly once, although it deletes rows while the enumeration
\* is open: none is skipped and none is met twice.
C35_AsStated ==
    /\ \A i \in DOMAIN examined : examined[i] \in store0 /\ Examined(examined[i]) = 1
    /\ (PruneDone \/ Ended) => \A r \in store0 : Examined(r) = 1

C37_AsStated ==
    /\ pc = "done" => result \notin {"IntegrityError", "FileNotFoundError"}
    /\ \A i, j \in DOMAIN visits :
        (i < j /\ visits[i].path = visits[j].path
               /\ Decided(visits[i]) /\ Decided(visits[j])) =>
            /\ visits[i].action \in {"new", "update"}
            /\ visits[j].raised = "None"
            /\ visits[j].action = "skip"
            /\ visits[j].after = visits[j].before

\* a row the store had when the run started, of a configured fs_id, whose
\* path is a regular file that lies under no configured root
Outside(r) ==
    /\ r \in store0
    /\ r.fs_id \in allowed_fsids(cfg)
    /\ Regular(r.path)
    /\ CfgRoots(r.path) = {}

Lookups ==
    {"get_file", "does_exist", "get_all_files", "get_files_matching_hash",
     "get_files_matching_regex"}

\* C39: get_file, does_exist, get_all_files, get_files_matching_hash and
\* get_files_matching_regex, whatever they return or raise, on a read-only
\* and on a read-write store, leave the rows of the session and what is
\* committed as they were and open no transaction; get_file and does_exist
\* of a path that has no row return None and False and raise nothing.
C39_ReadsOnly ==
    /\ call.op \in Lookups =>
        /\ conn.table = call.table0
        /\ dbFile = call.file0
        /\ conn.in_transaction = call.pending
        /\ conn.is_closed = call.closed
        /\ conn.readonly = call.readonly
    /\ (call.op = "get_file" /\ ~call.closed /\ ~call.present) =>
        (result = "None" /\ call.value = None)
    /\ (call.op = "does_exist" /\ ~call.closed /\ ~call.present) =>
        (result = "None" /\ call.value = FALSE)

\* get_file of a path that has no row, in a read-write session with changes
\* that are not committed
C39_Witness ==
    /\ call.op = "get_file"
    /\ ~call.present
    /\ Uncommitted
    /\ result = "None"
    /\ conn.in_transaction
    /\ conn.table # dbFile

====
